---- MODULE Spec2Model ----
(***************************************************************************)
(* Design-pattern demonstrations: the Observer registry                    *)
(* (src/Observer/observer.py), the Composite tree                          *)
(* (src/Composite/composite.py), the Builder (src/Builder/builder.py) and  *)
(* the Command invoker (src/Command/command.py), the Strategy context      *)
(* (src/Strategy/strategy.py) and the Decorator stack                      *)
(* (src/Decorator/decorator.py), modelled as state machines.               *)
(***************************************************************************)
EXTENDS Integers, Sequences, FiniteSets, TLC

VARIABLES
    observadores,   \* SujeitoConcreto._observadores, the class attribute
    estado,         \* _estado of each SujeitoConcreto instance, <<>> is None
    passe,          \* the position of the running notificar() loop
    chamada,        \* the last Observer call and how it ended
    children,       \* Composite._children of each Composite
    parent,         \* Component._parent of each node
    chamadaC,       \* the last Composite call and how it ended
    resultado,      \* the string the last operation() returned
    produtos,       \* the Product1 objects created so far, each its parts list
    atual,          \* ConcreteBuilder1._product, an index into produtos
    diretor,        \* Director._builder: is a builder assigned
    devolvidos,     \* the products the client got from builder.product
    pedidas,        \* the parts the client asked for since the last reset
    chamadaB,       \* the last Builder call and how it ended
    onStart,        \* _on_start as each Invoker sees it
    onFinish,       \* _on_finish as each Invoker sees it
    saida,          \* what the last do_something_important() did, in order
    chamadaI,       \* the last Invoker call and how it ended
    estrategia,     \* Contexto._estrategia of each Contexto
    impresso,       \* the results executar_logica_de_negocio printed so far
    chamadaS,       \* the last Contexto call
    objetos,        \* the Componente objects created so far
    resultadoD,     \* the string the last operacao() returned
    chamadaD        \* the last Decorator call

varsObserver == <<observadores, estado, passe, chamada>>
varsComposite == <<children, parent, chamadaC, resultado>>
varsBuilder == <<produtos, atual, diretor, devolvidos, pedidas, chamadaB>>
varsInvoker == <<onStart, onFinish, saida, chamadaI>>
varsContexto == <<estrategia, impresso, chamadaS>>
varsDecorador == <<objetos, resultadoD, chamadaD>>
vars == <<varsObserver, varsComposite, varsBuilder, varsInvoker, varsContexto, varsDecorador>>
\* What the calls on the classes of one file leave alone: the objects of the
\* other files
varsForaObserver == <<varsComposite, varsBuilder, varsInvoker, varsContexto, varsDecorador>>
varsForaComposite == <<varsObserver, varsBuilder, varsInvoker, varsContexto, varsDecorador>>
varsForaBuilder == <<varsObserver, varsComposite, varsInvoker, varsContexto, varsDecorador>>
varsForaInvoker == <<varsObserver, varsComposite, varsBuilder, varsContexto, varsDecorador>>
varsForaContexto == <<varsObserver, varsComposite, varsBuilder, varsInvoker, varsDecorador>>
varsForaDecorador == <<varsObserver, varsComposite, varsBuilder, varsInvoker, varsContexto>>

\* ------------------------------------------------------------------------
\* Bounds
\* ------------------------------------------------------------------------
MaxObservadores == 3
MaxFilhos == 2
MaxProdutos == 3
MaxPartes == 3
MaxImpressos == 2
MaxObjetos == 4

\* ------------------------------------------------------------------------
\* Observer: objects
\* ------------------------------------------------------------------------
Sujeitos == {"s1", "s2"}

\* The class of each observer object: ObservadorConcretoA, ObservadorConcretoB,
\* or a client subclass of Observador whose atualizar calls back into the
\* subject it is handed.
Classe == [a1 |-> "ObservadorConcretoA", b1 |-> "ObservadorConcretoB", r1 |-> "Cliente"]
Observadores == DOMAIN Classe

\* randrange(0, 10)
Estados == 0 .. 9
None == <<>>

\* ------------------------------------------------------------------------
\* Observer: list helpers (the host collection)
\* ------------------------------------------------------------------------
Contem(lista, x) == \E k \in 1 .. Len(lista) : lista[k] = x

\* list.index: the position of the first entry equal to x (x is present)
Index(lista, x) == CHOOSE k \in 1 .. Len(lista) : lista[k] = x /\ \A j \in 1 .. (k - 1) : lista[j] # x

SemPosicao(lista, k) == SubSeq(lista, 1, k - 1) \o SubSeq(lista, k + 1, Len(lista))

\* The list without its last entry equal to x (used by a variant)
ListaRemoveUltimo(lista, x) == SemPosicao(lista, CHOOSE k \in 1 .. Len(lista) : lista[k] = x /\ \A j \in (k + 1) .. Len(lista) : lista[j] # x)
\* list.remove on a list that holds x: the first entry equal to x goes
ListaRemove(lista, x) == SemPosicao(lista, Index(lista, x))

\* self._observadores: no instance ever assigns the attribute, so the lookup
\* on any instance resolves to the one list of the class
ObservadoresDe(s) == observadores

\* The frame of notificar(): who called it (origem) with which drawn state
\* (novo), the iterator's index, and what the pass did so far: the observers
\* visited, the states they read (lidos) and the ones that printed (reagiu)
PasseOcioso == [fase |-> "ocioso", self |-> "s1", i |-> 1, visitados |-> <<>>, inicio |-> <<>>, removeu |-> FALSE, adicionou |-> FALSE,
                origem |-> "-", novo |-> None, lidos |-> <<>>, reagiu |-> <<>>]

Chamada(op, self, arg, erro) == [op |-> op, self |-> self, arg |-> arg, erro |-> erro]

\* No call of the interpreter is in progress: the next statement of the
\* client may run
Livre == passe.fase # "iterando"

InitObserver ==
    /\ observadores = <<>>
    /\ estado = [s \in Sujeitos |-> None]
    /\ passe = PasseOcioso
    /\ chamada = Chamada("init", "-", "-", "")

\* ------------------------------------------------------------------------
\* Observer: SujeitoConcreto
\* ------------------------------------------------------------------------
\* adicionar as insert(0, observador) would be (a variant the properties
\* must tell from the code)
AdicionarNaFrente(s, o) ==
    /\ Len(ObservadoresDe(s)) < MaxObservadores
    /\ observadores' = <<o>> \o ObservadoresDe(s)
    /\ chamada' = Chamada("adicionar", s, o, "")
\* adicionar that skips an observer already in the list (a variant)
AdicionarSemDuplicata(s, o) ==
    /\ Len(ObservadoresDe(s)) < MaxObservadores
    /\ observadores' = IF Contem(ObservadoresDe(s), o) THEN ObservadoresDe(s) ELSE Append(ObservadoresDe(s), o)
    /\ chamada' = Chamada("adicionar", s, o, "")
\* adicionar
Adicionar(s, o) ==
    /\ Len(ObservadoresDe(s)) < MaxObservadores
    /\ observadores' = Append(ObservadoresDe(s), o)
    /\ chamada' = Chamada("adicionar", s, o, "")

\* remover taking the last equal entry (a variant)
RemoverUltimo(s, o) ==
    IF Contem(ObservadoresDe(s), o)
    THEN /\ observadores' = ListaRemoveUltimo(ObservadoresDe(s), o)
         /\ chamada' = Chamada("remover", s, o, "")
    ELSE /\ observadores' = observadores
         /\ chamada' = Chamada("remover", s, o, "ValueError")
\* remover: list.remove raises ValueError when the entry is absent
Remover(s, o) ==
    IF Contem(ObservadoresDe(s), o)
    THEN /\ observadores' = ListaRemove(ObservadoresDe(s), o)
         /\ chamada' = Chamada("remover", s, o, "")
    ELSE /\ observadores' = observadores
         /\ chamada' = Chamada("remover", s, o, "ValueError")

\* The client calls adicionar / remover between two notifications
ClienteAdicionar ==
    /\ UNCHANGED varsForaObserver
    /\ Livre
    /\ \E s \in Sujeitos, o \in Observadores : Adicionar(s, o)
    /\ passe' = PasseOcioso
    /\ UNCHANGED estado

ClienteRemover ==
    /\ UNCHANGED varsForaObserver
    /\ Livre
    /\ \E s \in Sujeitos, o \in Observadores : Remover(s, o)
    /\ passe' = PasseOcioso
    /\ UNCHANGED estado

\* notificar(): the for loop starts at the head of the live list
IniciarPasse(s) == [fase |-> "iterando", self |-> s, i |-> 1, visitados |-> <<>>,
                    inicio |-> ObservadoresDe(s), removeu |-> FALSE, adicionou |-> FALSE,
                    origem |-> "notificar", novo |-> None, lidos |-> <<>>, reagiu |-> <<>>]

Notificar ==
    /\ UNCHANGED varsForaObserver
    /\ Livre
    /\ \E s \in Sujeitos :
        /\ passe' = IniciarPasse(s)
        /\ chamada' = Chamada("notificar", s, "-", "")
    /\ UNCHANGED <<observadores, estado>>

\* executar_logica_principal that draws the value but does not store it in
\* the subject (a variant)
ExecutarSemAtribuir(V) ==
    /\ UNCHANGED varsForaObserver
    /\ Livre
    /\ \E s \in Sujeitos, v \in V :
        /\ estado' = estado
        /\ passe' = [IniciarPasse(s) EXCEPT !.origem = "executar_logica_principal", !.novo = <<v>>]
        /\ chamada' = Chamada("executar_logica_principal", s, "-", "")
    /\ UNCHANGED observadores
\* executar_logica_principal(): a new state drawn from V, then notificar()
ExecutarLogicaPrincipalEm(V) ==
    /\ UNCHANGED varsForaObserver
    /\ Livre
    /\ \E s \in Sujeitos, v \in V :
        /\ estado' = [estado EXCEPT ![s] = <<v>>]
        /\ passe' = [IniciarPasse(s) EXCEPT !.origem = "executar_logica_principal", !.novo = <<v>>]
        /\ chamada' = Chamada("executar_logica_principal", s, "-", "")
    /\ UNCHANGED observadores

ExecutarLogicaPrincipal == ExecutarLogicaPrincipalEm(Estados)

\* The same call where the draw falls on one of two sample values: 2, where
\* both concrete observers react, and 5, where only B does
EstadosAmostra == {2, 5}
ExecutarLogicaPrincipalAmostra == ExecutarLogicaPrincipalEm(EstadosAmostra)

\* ------------------------------------------------------------------------
\* Observer: the observers
\* ------------------------------------------------------------------------
\* One iteration of `for observador in self._observadores`: the list iterator
\* reads the entry at its index in the live list, steps, and atualizar runs.
Visita(o) == [passe EXCEPT !.i = @ + 1, !.visitados = Append(@, o)]

\* ObservadorConcretoA: sujeito._estado < 3, with <= in its place (a variant)
ReageAte3(e) == e[1] <= 3
\* ObservadorConcretoA: sujeito._estado < 3
ReageA(e) == e[1] < 3
\* ObservadorConcretoB: sujeito._estado == 0 or sujeito._estado >= 2
ReageB(e) == e[1] = 0 \/ e[1] >= 2

Reage(o, e) == IF Classe[o] = "ObservadorConcretoA" THEN ReageA(e) ELSE ReageB(e)

\* The visit of a concrete observer: it reads the state e and prints when its
\* condition holds
VisitaConcreto(o, e) ==
    [Visita(o) EXCEPT !.lidos = Append(@, e),
                      !.reagiu = IF Reage(o, e) THEN Append(@, o) ELSE @]

\* atualizar of a concrete observer that also resets the state it was
\* handed (a variant)
AtualizarConcretoZera ==
    /\ UNCHANGED varsForaObserver
    /\ passe.fase = "iterando"
    /\ passe.i <= Len(ObservadoresDe(passe.self))
    /\ LET o == ObservadoresDe(passe.self)[passe.i] IN
        /\ Classe[o] \in {"ObservadorConcretoA", "ObservadorConcretoB"}
        /\ IF estado[passe.self] = None
           THEN /\ passe' = [Visita(o) EXCEPT !.fase = "abortado", !.lidos = Append(@, None)]
                /\ chamada' = Chamada("atualizar", o, passe.self, "TypeError")
                /\ estado' = estado
           ELSE /\ passe' = VisitaConcreto(o, estado[passe.self])
                /\ chamada' = Chamada("atualizar", o, passe.self, "")
                /\ estado' = [estado EXCEPT ![passe.self] = <<0>>]
    /\ UNCHANGED observadores
\* ObservadorConcretoA.atualizar / ObservadorConcretoB.atualizar: the
\* comparison of None with an int raises TypeError
AtualizarConcreto ==
    /\ UNCHANGED varsForaObserver
    /\ passe.fase = "iterando"
    /\ passe.i <= Len(ObservadoresDe(passe.self))
    /\ LET o == ObservadoresDe(passe.self)[passe.i] IN
        /\ Classe[o] \in {"ObservadorConcretoA", "ObservadorConcretoB"}
        /\ IF estado[passe.self] = None
           THEN /\ passe' = [Visita(o) EXCEPT !.fase = "abortado", !.lidos = Append(@, None)]
                /\ chamada' = Chamada("atualizar", o, passe.self, "TypeError")
           ELSE /\ passe' = VisitaConcreto(o, estado[passe.self])
                /\ chamada' = Chamada("atualizar", o, passe.self, "")
    /\ UNCHANGED <<observadores, estado>>

\* atualizar of a client observer that does nothing with the subject
AtualizarCliente ==
    /\ UNCHANGED varsForaObserver
    /\ passe.fase = "iterando"
    /\ passe.i <= Len(ObservadoresDe(passe.self))
    /\ LET o == ObservadoresDe(passe.self)[passe.i] IN
        /\ Classe[o] = "Cliente"
        /\ passe' = Visita(o)
        /\ chamada' = Chamada("atualizar", o, passe.self, "")
    /\ UNCHANGED <<observadores, estado>>

\* atualizar of a client observer that calls sujeito.remover(x); the
\* ValueError of an absent x leaves atualizar and notificar
AtualizarClienteRemover ==
    /\ UNCHANGED varsForaObserver
    /\ passe.fase = "iterando"
    /\ passe.i <= Len(ObservadoresDe(passe.self))
    /\ LET o == ObservadoresDe(passe.self)[passe.i] IN
        /\ Classe[o] = "Cliente"
        /\ \E x \in Observadores :
            /\ Remover(passe.self, x)
            /\ passe' = IF Contem(ObservadoresDe(passe.self), x)
                        THEN [Visita(o) EXCEPT !.removeu = TRUE]
                        ELSE [Visita(o) EXCEPT !.fase = "abortado"]
    /\ UNCHANGED estado

\* atualizar of a client observer that calls sujeito.adicionar(x)
AtualizarClienteAdicionar ==
    /\ UNCHANGED varsForaObserver
    /\ passe.fase = "iterando"
    /\ passe.i <= Len(ObservadoresDe(passe.self))
    /\ LET o == ObservadoresDe(passe.self)[passe.i] IN
        /\ Classe[o] = "Cliente"
        /\ \E x \in Observadores : Adicionar(passe.self, x)
        /\ passe' = [Visita(o) EXCEPT !.adicionou = TRUE]
    /\ UNCHANGED estado

\* The iterator's index is past the end of the live list: the loop ends
FimNotificar ==
    /\ UNCHANGED varsForaObserver
    /\ passe.fase = "iterando"
    /\ passe.i > Len(ObservadoresDe(passe.self))
    /\ passe' = [passe EXCEPT !.fase = "concluido"]
    /\ chamada' = Chamada("notificar", passe.self, "-", "")
    /\ UNCHANGED <<observadores, estado>>

NextObserver ==
    \/ ClienteAdicionar
    \/ ClienteRemover
    \/ Notificar
    \/ ExecutarLogicaPrincipalAmostra
    \/ AtualizarConcreto
    \/ AtualizarCliente
    \/ AtualizarClienteRemover
    \/ AtualizarClienteAdicionar
    \/ FimNotificar

\* The same client, every draw of randrange(0, 10) possible
NextObserverEstados ==
    \/ ClienteAdicionar
    \/ ClienteRemover
    \/ Notificar
    \/ ExecutarLogicaPrincipal
    \/ AtualizarConcreto
    \/ AtualizarCliente
    \/ AtualizarClienteRemover
    \/ AtualizarClienteAdicionar
    \/ FimNotificar

\* ------------------------------------------------------------------------
\* Composite: objects
\* ------------------------------------------------------------------------
Galhos == {"g1", "g2"}     \* Composite()
Folhas == {"f1"}           \* Leaf()
Nos == Galhos \cup Folhas

\* _parent before the setter ever ran, and _parent = None
SemAtributo == "-"
ParentNone == "None"

\* Composite.__init__ gives each Composite its own empty list; nothing
\* initialises _parent
InitComposite ==
    /\ children = [b \in Galhos |-> <<>>]
    /\ parent = [n \in Nos |-> SemAtributo]
    /\ chamadaC = Chamada("init", "-", "-", "")
    /\ resultado = <<>>

\* ------------------------------------------------------------------------
\* Composite: add / remove
\* ------------------------------------------------------------------------
\* add without the parent assignment (a variant)
AddSemParent(b, c) ==
    /\ Len(children[b]) < MaxFilhos
    /\ children' = [children EXCEPT ![b] = Append(@, c)]
    /\ parent' = parent
    /\ chamadaC' = Chamada("add", b, c, "")
\* add as insert(0, component) (a variant)
AddNaFrente(b, c) ==
    /\ Len(children[b]) < MaxFilhos
    /\ children' = [children EXCEPT ![b] = <<c>> \o @]
    /\ parent' = [parent EXCEPT ![c] = b]
    /\ chamadaC' = Chamada("add", b, c, "")
\* Composite.add
Add(b, c) ==
    /\ Len(children[b]) < MaxFilhos
    /\ children' = [children EXCEPT ![b] = Append(@, c)]
    /\ parent' = [parent EXCEPT ![c] = b]
    /\ chamadaC' = Chamada("add", b, c, "")

\* remove that swallows the error of an absent component (a variant)
RemoveSilencioso(b, c) ==
    IF Contem(children[b], c)
    THEN /\ children' = [children EXCEPT ![b] = ListaRemove(@, c)]
         /\ parent' = [parent EXCEPT ![c] = ParentNone]
         /\ chamadaC' = Chamada("remove", b, c, "")
    ELSE /\ children' = children
         /\ parent' = parent
         /\ chamadaC' = Chamada("remove", b, c, "")
\* remove that clears the parent before the list is searched (a variant)
RemoveLimpaParent(b, c) ==
    IF Contem(children[b], c)
    THEN /\ children' = [children EXCEPT ![b] = ListaRemove(@, c)]
         /\ parent' = [parent EXCEPT ![c] = ParentNone]
         /\ chamadaC' = Chamada("remove", b, c, "")
    ELSE /\ children' = children
         /\ parent' = [parent EXCEPT ![c] = ParentNone]
         /\ chamadaC' = Chamada("remove", b, c, "ValueError")
\* remove that deletes every entry equal to the component (a variant)
RemoveTodos(b, c) ==
    IF Contem(children[b], c)
    THEN /\ children' = [children EXCEPT ![b] = SelectSeq(@, LAMBDA x : x # c)]
         /\ parent' = [parent EXCEPT ![c] = ParentNone]
         /\ chamadaC' = Chamada("remove", b, c, "")
    ELSE /\ children' = children
         /\ parent' = parent
         /\ chamadaC' = Chamada("remove", b, c, "ValueError")
\* Composite.remove: list.remove raises ValueError before the parent is
\* touched when the component is not in the list
Remove(b, c) ==
    IF Contem(children[b], c)
    THEN /\ children' = [children EXCEPT ![b] = ListaRemove(@, c)]
         /\ parent' = [parent EXCEPT ![c] = ParentNone]
         /\ chamadaC' = Chamada("remove", b, c, "")
    ELSE /\ children' = children
         /\ parent' = parent
         /\ chamadaC' = Chamada("remove", b, c, "ValueError")

CompositeAdd ==
    /\ UNCHANGED varsForaComposite
    /\ \E b \in Galhos, c \in Nos : Add(b, c)
    /\ resultado' = <<>>

CompositeRemove ==
    /\ UNCHANGED varsForaComposite
    /\ \E b \in Galhos, c \in Nos : Remove(b, c)
    /\ resultado' = <<>>

\* Component.add that records the caller as parent (a variant)
LeafAddMarcaParent ==
    /\ UNCHANGED varsForaComposite
    /\ \E f \in Folhas, c \in Nos :
        /\ chamadaC' = Chamada("add", f, c, "")
        /\ parent' = [parent EXCEPT ![c] = f]
    /\ resultado' = <<>>
    /\ UNCHANGED children
\* Component.add, inherited by Leaf: pass
LeafAdd ==
    /\ UNCHANGED varsForaComposite
    /\ \E f \in Folhas, c \in Nos : chamadaC' = Chamada("add", f, c, "")
    /\ resultado' = <<>>
    /\ UNCHANGED <<children, parent>>

\* Component.remove, inherited by Leaf: pass
LeafRemove ==
    /\ UNCHANGED varsForaComposite
    /\ \E f \in Folhas, c \in Nos : chamadaC' = Chamada("remove", f, c, "")
    /\ resultado' = <<>>
    /\ UNCHANGED <<children, parent>>

\* ------------------------------------------------------------------------
\* Composite: operation()
\* ------------------------------------------------------------------------
\* Strings are sequences of the pieces the code concatenates
Texto(s) == <<s>>

RECURSIVE Join(_, _)
\* sep.join(results)
Join(results, sep) ==
    IF Len(results) = 0 THEN <<>>
    ELSE IF Len(results) = 1 THEN results[1]
    ELSE results[1] \o Texto(sep) \o Join(Tail(results), sep)

\* The interpreter ends a recursion that does not end by itself with
\* RecursionError. A chain of distinct nodes is no longer than the number of
\* nodes, so a call nested deeper than that is on a cycle.
ProfundidadeMax == Cardinality(Nos)
RecursionError == <<"RecursionError">>

RECURSIVE OperationEm(_, _)
OperationEm(n, fundo) ==
    IF n \in Folhas THEN Texto("Folha")
    ELSE IF fundo = 0 THEN RecursionError
    ELSE LET results == [k \in 1 .. Len(children[n]) |-> OperationEm(children[n][k], fundo - 1)] IN
         IF \E k \in 1 .. Len(results) : results[k] = RecursionError
         THEN RecursionError
         ELSE Texto("Galho(") \o Join(results, "+") \o Texto(")")

\* Leaf.operation / Composite.operation
Operation(n) == OperationEm(n, ProfundidadeMax)

ChamarOperation ==
    /\ UNCHANGED varsForaComposite
    /\ \E n \in Nos :
        IF Operation(n) = RecursionError
        THEN /\ resultado' = <<>>
             /\ chamadaC' = Chamada("operation", n, "-", "RecursionError")
        ELSE /\ resultado' = Operation(n)
             /\ chamadaC' = Chamada("operation", n, "-", "")
    /\ UNCHANGED <<children, parent>>

\* Component.is_composite / Composite.is_composite
IsComposite(n) == n \in Galhos

\* client_code2(component1, component2): component1.add(component2) when
\* component1 is a composite, then component1.operation() is printed
ClientCode2 ==
    /\ UNCHANGED varsForaComposite
    /\ \E c1 \in Nos, c2 \in Nos :
        /\ IF IsComposite(c1)
           THEN /\ Len(children[c1]) < MaxFilhos
                /\ children' = [children EXCEPT ![c1] = Append(@, c2)]
                /\ parent' = [parent EXCEPT ![c2] = c1]
           ELSE UNCHANGED <<children, parent>>
        /\ IF Operation(c1)' = RecursionError
           THEN /\ resultado' = <<>>
                /\ chamadaC' = Chamada("client_code2", c1, c2, "RecursionError")
           ELSE /\ resultado' = Operation(c1)'
                /\ chamadaC' = Chamada("client_code2", c1, c2, "")

NextComposite ==
    \/ CompositeAdd
    \/ CompositeRemove
    \/ LeafAdd
    \/ LeafRemove
    \/ ChamarOperation
    \/ ClientCode2

\* ------------------------------------------------------------------------
\* Builder
\* ------------------------------------------------------------------------
ChamadaB(op, ret, erro) == [op |-> op, ret |-> ret, erro |-> erro]

\* ConcreteBuilder1.__init__ calls reset(): one empty Product1; Director()
\* has no builder yet
InitBuilder ==
    /\ produtos = << <<>> >>
    /\ atual = 1
    /\ diretor = FALSE
    /\ devolvidos = <<>>
    /\ pedidas = <<>>
    /\ chamadaB = ChamadaB("init", 0, "")

RECURSIVE SomaPartes(_)
SomaPartes(ps) == IF ps = <<>> THEN 0 ELSE Len(Head(ps)) + SomaPartes(Tail(ps))
\* All the parts held by all the products
TotalPartes == SomaPartes(produtos)

\* The builder with a new Product1() in _product
NovoProduto == Append(produtos, <<>>)

\* ConcreteBuilder1.reset
Reset ==
    /\ UNCHANGED varsForaBuilder
    /\ Len(produtos) < MaxProdutos
    /\ produtos' = NovoProduto
    /\ atual' = Len(produtos) + 1
    /\ pedidas' = <<>>
    /\ chamadaB' = ChamadaB("reset", 0, "")
    /\ UNCHANGED <<diretor, devolvidos>>

\* product that hands out _product and keeps building on it (a variant)
ProductSemReset ==
    /\ UNCHANGED varsForaBuilder
    /\ Len(produtos) < MaxProdutos
    /\ produtos' = produtos
    /\ atual' = atual
    /\ pedidas' = <<>>
    /\ devolvidos' = Append(devolvidos, [id |-> atual, partes |-> pedidas])
    /\ chamadaB' = ChamadaB("product", atual, "")
    /\ UNCHANGED diretor
\* ConcreteBuilder1.product: the current product is returned, reset() puts a
\* new one in its place
Product ==
    /\ UNCHANGED varsForaBuilder
    /\ Len(produtos) < MaxProdutos
    /\ produtos' = NovoProduto
    /\ atual' = Len(produtos) + 1
    /\ pedidas' = <<>>
    /\ devolvidos' = Append(devolvidos, [id |-> atual, partes |-> pedidas])
    /\ chamadaB' = ChamadaB("product", atual, "")
    /\ UNCHANGED diretor

\* Product1.add on the builder's current product, for each of `partes`
Produzir(partes) == [produtos EXCEPT ![atual] = @ \o partes]

\* ConcreteBuilder1.produce_part_a
ProducePartA ==
    /\ UNCHANGED varsForaBuilder
    /\ TotalPartes < MaxPartes
    /\ produtos' = Produzir(<<"ParteA1">>)
    /\ pedidas' = Append(pedidas, "ParteA1")
    /\ chamadaB' = ChamadaB("produce_part_a", 0, "")
    /\ UNCHANGED <<atual, diretor, devolvidos>>

\* ConcreteBuilder1.produce_part_b
ProducePartB ==
    /\ UNCHANGED varsForaBuilder
    /\ TotalPartes < MaxPartes
    /\ produtos' = Produzir(<<"ParteB1">>)
    /\ pedidas' = Append(pedidas, "ParteB1")
    /\ chamadaB' = ChamadaB("produce_part_b", 0, "")
    /\ UNCHANGED <<atual, diretor, devolvidos>>

\* ConcreteBuilder1.produce_part_c
ProducePartC ==
    /\ UNCHANGED varsForaBuilder
    /\ TotalPartes < MaxPartes
    /\ produtos' = Produzir(<<"ParteC1">>)
    /\ pedidas' = Append(pedidas, "ParteC1")
    /\ chamadaB' = ChamadaB("produce_part_c", 0, "")
    /\ UNCHANGED <<atual, diretor, devolvidos>>

\* director.builder = builder
DirectorSetBuilder ==
    /\ UNCHANGED varsForaBuilder
    /\ diretor' = TRUE
    /\ chamadaB' = ChamadaB("builder", 0, "")
    /\ UNCHANGED <<produtos, atual, devolvidos, pedidas>>

\* Director.build_minimal_viable_product; with no builder assigned the call
\* on None raises AttributeError
BuildMinimalViableProduct ==
    /\ UNCHANGED varsForaBuilder
    /\ IF diretor
       THEN /\ TotalPartes < MaxPartes
            /\ produtos' = Produzir(<<"ParteA1">>)
            /\ pedidas' = Append(pedidas, "ParteA1")
            /\ chamadaB' = ChamadaB("build_minimal_viable_product", 0, "")
       ELSE /\ UNCHANGED <<produtos, pedidas>>
            /\ chamadaB' = ChamadaB("build_minimal_viable_product", 0, "AttributeError")
    /\ UNCHANGED <<atual, diretor, devolvidos>>

\* Director.build_full_featured_product
BuildFullFeaturedProduct ==
    /\ UNCHANGED varsForaBuilder
    /\ IF diretor
       THEN /\ TotalPartes + 3 <= MaxPartes
            /\ produtos' = Produzir(<<"ParteA1", "ParteB1", "ParteC1">>)
            /\ pedidas' = pedidas \o <<"ParteA1", "ParteB1", "ParteC1">>
            /\ chamadaB' = ChamadaB("build_full_featured_product", 0, "")
       ELSE /\ UNCHANGED <<produtos, pedidas>>
            /\ chamadaB' = ChamadaB("build_full_featured_product", 0, "AttributeError")
    /\ UNCHANGED <<atual, diretor, devolvidos>>

NextBuilder ==
    \/ Reset
    \/ Product
    \/ ProducePartA
    \/ ProducePartB
    \/ ProducePartC
    \/ DirectorSetBuilder
    \/ BuildMinimalViableProduct
    \/ BuildFullFeaturedProduct

\* ------------------------------------------------------------------------
\* Command
\* ------------------------------------------------------------------------
Invokers == {"i1", "i2"}

\* What a client can hand to set_on_start / set_on_finish: a SimpleCommand, a
\* ComplexCommand, or an object that is no Command
ClasseComando == [simples |-> "SimpleCommand", complexo |-> "ComplexCommand", outro |-> "object"]
Valores == DOMAIN ClasseComando

\* The class attributes _on_start = None and _on_finish = None
SlotNone == "None"

\* isinstance(x, Command)
IsCommand(x) == x \in Valores /\ ClasseComando[x] \in {"SimpleCommand", "ComplexCommand"}

Evento(quem, oque) == [quem |-> quem, oque |-> oque]

\* SimpleCommand.execute prints; ComplexCommand.execute prints and calls the
\* two methods of its receiver
Execute(c) ==
    IF ClasseComando[c] = "SimpleCommand"
    THEN <<Evento(c, "execute")>>
    ELSE <<Evento(c, "execute"), Evento("receiver", "do_something"), Evento("receiver", "do_something_else")>>

ChamadaI(op, self, arg) == [op |-> op, self |-> self, arg |-> arg]

\* Invoker() assigns nothing: both slots read the class attributes
InitInvoker ==
    /\ onStart = [i \in Invokers |-> SlotNone]
    /\ onFinish = [i \in Invokers |-> SlotNone]
    /\ saida = <<>>
    /\ chamadaI = ChamadaI("init", "-", "-")

\* Invoker.set_on_start: the assignment makes an attribute of the instance
SetOnStart ==
    /\ UNCHANGED varsForaInvoker
    /\ \E i \in Invokers, c \in Valores :
        /\ onStart' = [onStart EXCEPT ![i] = c]
        /\ chamadaI' = ChamadaI("set_on_start", i, c)
    /\ saida' = <<>>
    /\ UNCHANGED onFinish

\* Invoker.set_on_finish
SetOnFinish ==
    /\ UNCHANGED varsForaInvoker
    /\ \E i \in Invokers, c \in Valores :
        /\ onFinish' = [onFinish EXCEPT ![i] = c]
        /\ chamadaI' = ChamadaI("set_on_finish", i, c)
    /\ saida' = <<>>
    /\ UNCHANGED onStart

\* do_something_important with the two slots swapped (a variant)
SaidaTrocada(i) ==
    <<Evento(i, "print antes")>>
    \o (IF IsCommand(onFinish[i]) THEN Execute(onFinish[i]) ELSE <<>>)
    \o <<Evento(i, "print importante"), Evento(i, "print depois")>>
    \o (IF IsCommand(onStart[i]) THEN Execute(onStart[i]) ELSE <<>>)
\* The body of Invoker.do_something_important
SaidaInvoker(i) ==
    <<Evento(i, "print antes")>>
    \o (IF IsCommand(onStart[i]) THEN Execute(onStart[i]) ELSE <<>>)
    \o <<Evento(i, "print importante"), Evento(i, "print depois")>>
    \o (IF IsCommand(onFinish[i]) THEN Execute(onFinish[i]) ELSE <<>>)

\* Invoker.do_something_important
DoSomethingImportant ==
    /\ UNCHANGED varsForaInvoker
    /\ \E i \in Invokers :
        /\ saida' = SaidaInvoker(i)
        /\ chamadaI' = ChamadaI("do_something_important", i, "-")
    /\ UNCHANGED <<onStart, onFinish>>

NextInvoker ==
    \/ SetOnStart
    \/ SetOnFinish
    \/ DoSomethingImportant

\* ------------------------------------------------------------------------
\* Strategy
\* ------------------------------------------------------------------------
Contextos == {"c1", "c2"}

\* The strategy objects a client can hand over, each with its class
ClasseEstrategia == [ea |-> "EstrategiaConcretaA", eb |-> "EstrategiaConcretaB"]
Estrategias == DOMAIN ClasseEstrategia

\* A Contexto that was not constructed yet
SemContexto == "-"

\* The list executar_logica_de_negocio hands to the strategy
Dados == <<"a", "b", "c", "d", "e">>

\* The order of the one-letter strings
Ordem == [a |-> 1, b |-> 2, c |-> 3, d |-> 4, e |-> 5]

RECURSIVE Inserir(_, _)
\* x put before the first entry of the sorted list that is greater
Inserir(x, lista) ==
    IF lista = <<>> THEN <<x>>
    ELSE IF Ordem[x] < Ordem[Head(lista)] THEN <<x>> \o lista
    ELSE <<Head(lista)>> \o Inserir(x, Tail(lista))

RECURSIVE Sorted(_)
\* sorted(dados)
Sorted(lista) == IF lista = <<>> THEN <<>> ELSE Inserir(Head(lista), Sorted(Tail(lista)))

\* reversed(lista), as the sequence the iterator yields
Reversed(lista) == [k \in 1 .. Len(lista) |-> lista[Len(lista) + 1 - k]]

\* EstrategiaConcretaA.executar_algoritmo / EstrategiaConcretaB.executar_algoritmo
ExecutarAlgoritmo(e, dados) ==
    IF ClasseEstrategia[e] = "EstrategiaConcretaA" THEN Sorted(dados) ELSE Reversed(Sorted(dados))

ChamadaS(op, self, arg) == [op |-> op, self |-> self, arg |-> arg]

InitContexto ==
    /\ estrategia = [c \in Contextos |-> SemContexto]
    /\ impresso = <<>>
    /\ chamadaS = ChamadaS("init", "-", "-")

\* Contexto(estrategia)
NovoContexto ==
    /\ UNCHANGED varsForaContexto
    /\ \E c \in Contextos, e \in Estrategias :
        /\ estrategia[c] = SemContexto
        /\ estrategia' = [estrategia EXCEPT ![c] = e]
        /\ chamadaS' = ChamadaS("__init__", c, e)
    /\ UNCHANGED impresso

\* The setter keeping the strategy the Contexto was built with (a variant)
AtribuirEstrategiaSemEfeito ==
    /\ UNCHANGED varsForaContexto
    /\ \E c \in Contextos, e \in Estrategias :
        /\ estrategia[c] # SemContexto
        /\ estrategia' = estrategia
        /\ chamadaS' = ChamadaS("estrategia", c, e)
    /\ UNCHANGED impresso
\* contexto.estrategia = e
AtribuirEstrategia ==
    /\ UNCHANGED varsForaContexto
    /\ \E c \in Contextos, e \in Estrategias :
        /\ estrategia[c] # SemContexto
        /\ estrategia' = [estrategia EXCEPT ![c] = e]
        /\ chamadaS' = ChamadaS("estrategia", c, e)
    /\ UNCHANGED impresso

\* Contexto.executar_logica_de_negocio: the strategy's result, joined by ","
\* and printed
ExecutarLogicaDeNegocio ==
    /\ UNCHANGED varsForaContexto
    /\ Len(impresso) < MaxImpressos
    /\ \E c \in Contextos :
        /\ estrategia[c] # SemContexto
        /\ impresso' = Append(impresso, Join([k \in 1 .. Len(Dados) |-> Texto(ExecutarAlgoritmo(estrategia[c], Dados)[k])], ","))
        /\ chamadaS' = ChamadaS("executar_logica_de_negocio", c, "-")
    /\ UNCHANGED estrategia

NextContexto ==
    \/ NovoContexto
    \/ AtribuirEstrategia
    \/ ExecutarLogicaDeNegocio

\* ------------------------------------------------------------------------
\* Decorator
\* ------------------------------------------------------------------------
\* The classes of the wrappers; Decorador is the base class
ClassesDecorador == {"Decorador", "DecoradorConcretoA", "DecoradorConcretoB"}

\* An object is its class and the object it wraps (its place in objetos);
\* a ComponenteConcreto wraps nothing
SemComponente == 0
Objeto(classe, componente) == [classe |-> classe, componente |-> componente]

ChamadaD(op, self, arg) == [op |-> op, self |-> self, arg |-> arg]

InitDecorador ==
    /\ objetos = <<>>
    /\ resultadoD = <<>>
    /\ chamadaD = ChamadaD("init", 0, "-")

\* ComponenteConcreto()
NovoComponenteConcreto ==
    /\ UNCHANGED varsForaDecorador
    /\ Len(objetos) < MaxObjetos
    /\ objetos' = Append(objetos, Objeto("ComponenteConcreto", SemComponente))
    /\ chamadaD' = ChamadaD("ComponenteConcreto", Len(objetos) + 1, "-")
    /\ UNCHANGED resultadoD

\* Decorador(componente), DecoradorConcretoA(componente),
\* DecoradorConcretoB(componente)
NovoDecorador ==
    /\ UNCHANGED varsForaDecorador
    /\ Len(objetos) < MaxObjetos
    /\ \E classe \in ClassesDecorador, componente \in 1 .. Len(objetos) :
        /\ objetos' = Append(objetos, Objeto(classe, componente))
        /\ chamadaD' = ChamadaD(classe, Len(objetos) + 1, componente)
    /\ UNCHANGED resultadoD

RECURSIVE OperacaoBaseEnvolve(_, _)
\* operacao() with the base Decorador writing its name too (a variant)
OperacaoBaseEnvolve(heap, o) ==
    IF heap[o].classe = "ComponenteConcreto" THEN <<"ComponenteConcreto">>
    ELSE <<heap[o].classe, "(">> \o OperacaoBaseEnvolve(heap, heap[o].componente) \o <<")">>
RECURSIVE Operacao(_, _)
\* operacao() of the object o, as the pieces of the string it returns
Operacao(heap, o) ==
    IF heap[o].classe = "ComponenteConcreto" THEN <<"ComponenteConcreto">>
    ELSE IF heap[o].classe = "Decorador" THEN Operacao(heap, heap[o].componente)
    ELSE <<heap[o].classe, "(">> \o Operacao(heap, heap[o].componente) \o <<")">>

\* codigo_cliente(componente): componente.operacao()
ChamarOperacao ==
    /\ UNCHANGED varsForaDecorador
    /\ \E o \in 1 .. Len(objetos) :
        /\ resultadoD' = Operacao(objetos, o)
        /\ chamadaD' = ChamadaD("operacao", o, "-")
    /\ UNCHANGED objetos

NextDecorador ==
    \/ NovoComponenteConcreto
    \/ NovoDecorador
    \/ ChamarOperacao

Init == InitObserver /\ InitComposite /\ InitBuilder /\ InitInvoker /\ InitContexto /\ InitDecorador

\* ------------------------------------------------------------------------
\* Observer: properties
\* ------------------------------------------------------------------------
\* notificar() has returned or was left by an exception
PasseTerminado == passe.fase \in {"concluido", "abortado"}

\* C1: one call of notificar() invokes atualizar on every observer registered
\* when it is called, exactly once and in registration order, whatever the
\* subject's state and the adicionar/remover calls made before it. Stated for
\* the passes during which no atualizar called back into the subject.
C1_NotificarVisitaTodos ==
    (PasseTerminado /\ ~passe.removeu /\ ~passe.adicionou /\ chamada.op # "remover")
        => passe.visitados = passe.inicio

\* C2: a remover made while notificar() iterates leaves the pass as it was:
\* every observer registered when the pass started is visited exactly once,
\* in order.
C2_RemoverDurantePasse ==
    (passe.fase = "concluido" /\ passe.removeu /\ ~passe.adicionou)
        => passe.visitados = passe.inicio

\* C3: the subscriber list belongs to the instance: adicionar / remover on one
\* SujeitoConcreto leaves the list of every other instance as it was.
C3_ListaPorInstancia ==
    [][\A s1 \in Sujeitos, s2 \in Sujeitos :
        (s1 # s2 /\ chamada'.op \in {"adicionar", "remover"} /\ chamada'.self = s1)
            => ObservadoresDe(s2)' = ObservadoresDe(s2)]_vars

\* C8: remover(o) deletes exactly the first entry equal to o and keeps the
\* other entries in their order; with o absent it fails with the list's
\* not-found error and the list is unchanged.
C8_RemoverPrimeiro ==
    [][\A s \in Sujeitos, o \in Observadores :
        (chamada'.op = "remover" /\ chamada'.self = s /\ chamada'.arg = o) =>
            LET antes == ObservadoresDe(s)
                depois == ObservadoresDe(s)'
            IN  IF \E k \in 1 .. Len(antes) : antes[k] = o
                THEN /\ chamada'.erro = ""
                     /\ Len(depois) = Len(antes) - 1
                     /\ \E k \in 1 .. Len(antes) :
                            /\ antes[k] = o
                            /\ \A j \in 1 .. (k - 1) : antes[j] # o /\ depois[j] = antes[j]
                            /\ \A j \in k .. Len(depois) : depois[j] = antes[j + 1]
                ELSE /\ chamada'.erro = "ValueError"
                     /\ depois = antes]_vars

\* C8 witness: a remover that took the first of two equal entries
C8_Witness ==
    /\ chamada.op = "remover"
    /\ chamada.erro = ""
    /\ Len(observadores) = 2
    /\ observadores[1] # chamada.arg
    /\ observadores[2] = chamada.arg

\* C12: executar_logica_principal() first sets the subject's state to a value
\* in 0..9 and then makes one notification pass: every observer visited in
\* it reads the value just assigned, and a pass that no atualizar disturbed
\* visits the list once from head to end.
C12_PasseLeEstadoNovo ==
    passe.origem = "executar_logica_principal" =>
        /\ passe.novo # <<>>
        /\ passe.novo[1] >= 0
        /\ passe.novo[1] <= 9
        /\ estado[passe.self] = passe.novo
        /\ \A k \in 1 .. Len(passe.lidos) : passe.lidos[k] = passe.novo
        /\ (passe.fase = "concluido" /\ ~passe.removeu /\ ~passe.adicionou)
                => passe.visitados = passe.inicio

\* C12 witness: a finished pass of executar_logica_principal that drew 9, two
\* observers having read it
C12_Witness ==
    /\ passe.origem = "executar_logica_principal"
    /\ passe.fase = "concluido"
    /\ passe.novo = <<9>>
    /\ passe.lidos = <<passe.novo, passe.novo>>
    /\ chamada.op = "notificar"

\* C13: adicionar(o) appends o at the end of the subscriber list, also when
\* o is already registered: the list grows by one and the earlier entries
\* keep their order.
C13_AdicionarNoFim ==
    [][\A s \in Sujeitos, o \in Observadores :
        (chamada'.op = "adicionar" /\ chamada'.self = s /\ chamada'.arg = o) =>
            LET antes == ObservadoresDe(s)
                depois == ObservadoresDe(s)'
            IN  /\ Len(depois) = Len(antes) + 1
                /\ depois[Len(depois)] = o
                /\ \A k \in 1 .. Len(antes) : depois[k] = antes[k]]_vars

\* C13 witness: an adicionar of an observer that was already registered,
\* behind a different one
C13_Witness ==
    /\ chamada.op = "adicionar"
    /\ Len(observadores) = 3
    /\ observadores[1] = chamada.arg
    /\ observadores[2] # chamada.arg
    /\ observadores[3] = chamada.arg

\* C14: ObservadorConcretoA.atualizar and ObservadorConcretoB.atualizar leave
\* the subject's state and its subscriber list unchanged, for every state
\* value.
C14_AtualizarNaoMuta ==
    [][(chamada'.op = "atualizar"
            /\ Classe[chamada'.self] \in {"ObservadorConcretoA", "ObservadorConcretoB"})
        => (estado' = estado /\ observadores' = observadores)]_vars

\* C14 witness: both concrete observers were visited in a pass over a set
\* state
C14_Witness ==
    /\ chamada.op = "atualizar"
    /\ chamada.erro = ""
    /\ estado[passe.self] # <<>>
    /\ Contem(passe.visitados, "a1")
    /\ Contem(passe.visitados, "b1")

\* The observer printed its reaction in the pass
Reagiu(o) == \E k \in 1 .. Len(passe.reagiu) : passe.reagiu[k] = o

\* C15: for every state s in 0..9, ObservadorConcretoA reacts exactly when
\* s < 3 and ObservadorConcretoB exactly when s = 0 or s >= 2.
C15_Limiares ==
    \A k \in 1 .. Len(passe.visitados) :
        LET o == passe.visitados[k]
            e == estado[passe.self]
        IN  (e # <<>> /\ passe.fase # "ocioso") =>
                /\ Classe[o] = "ObservadorConcretoA" => (Reagiu(o) <=> e[1] \in {0, 1, 2})
                /\ Classe[o] = "ObservadorConcretoB" => (Reagiu(o) <=> e[1] \in ({0} \cup (2 .. 9)))

\* C15 witness: state 2, both concrete observers visited and both reacted
C15_Witness ==
    /\ passe.fase = "concluido"
    /\ estado[passe.self] = <<2>>
    /\ passe.visitados = <<"a1", "b1">>
    /\ passe.reagiu = <<"a1", "b1">>

\* ------------------------------------------------------------------------
\* Composite: properties
\* ------------------------------------------------------------------------
RECURSIVE AlcancaEm(_, _, _)
\* `ate` is reached from `de` by following children lists, in at most n steps
AlcancaEm(de, ate, n) ==
    /\ n > 0
    /\ de \in Galhos
    /\ \E k \in 1 .. Len(children[de]) :
        children[de][k] = ate \/ AlcancaEm(children[de][k], ate, n - 1)

Alcanca(de, ate) == AlcancaEm(de, ate, Cardinality(Nos))

\* The number of entries of a list that are n
Ocorrencias(lista, n) == Cardinality({k \in 1 .. Len(lista) : lista[k] = n})

\* C4: the parent/child relation is acyclic: no Branch is reachable from
\* itself by following children lists.
C4_Aciclico == \A b \in Galhos : ~Alcanca(b, b)

\* C5: ownership is exclusive: every node occurs at most once in all the
\* children lists together.
C5_DonoUnico ==
    \A n \in Nos : \A b1 \in Galhos, b2 \in Galhos :
        /\ Ocorrencias(children[b1], n) <= 1
        /\ (b1 # b2 => ~(Contem(children[b1], n) /\ Contem(children[b2], n)))

\* A Composite.remove whose component is not among the children
RemoveAusente ==
    /\ chamadaC'.op = "remove"
    /\ chamadaC'.self \in Galhos
    /\ ~Contem(children[chamadaC'.self], chamadaC'.arg)

\* C6 as stated: remove(c) with c absent is a silent no-op: no error reaches
\* the caller and the children lists are unchanged.
C6_RemoveAusenteSilencioso ==
    [][RemoveAusente => (chamadaC'.erro = "" /\ children' = children)]_vars

\* C6 amended: remove(c) with c absent raises the list's not-found error and
\* changes no children list, so a repeated call raises the same error from
\* the same state.
C6_RemoveAusenteErro ==
    [][RemoveAusente => (chamadaC'.erro = "ValueError" /\ children' = children)]_vars

\* C6 witness: a failed remove on a Branch that has children
C6_Witness ==
    /\ chamadaC.op = "remove"
    /\ chamadaC.erro = "ValueError"
    /\ chamadaC.self \in Galhos
    /\ children[chamadaC.self] # <<>>

\* C7: remove(c) with c absent surfaces a not-found failure, and the Branch's
\* children list and c's parent reference are left unchanged.
C7_RemoveAusenteFalha ==
    [][RemoveAusente =>
        /\ chamadaC'.erro = "ValueError"
        /\ children'[chamadaC'.self] = children[chamadaC'.self]
        /\ parent'[chamadaC'.arg] = parent[chamadaC'.arg]]_vars

\* C7 witness: a failed remove of a component that another Branch holds, its
\* parent reference still that Branch
C7_Witness ==
    /\ chamadaC.op = "remove"
    /\ chamadaC.erro = "ValueError"
    /\ chamadaC.self \in Galhos
    /\ parent[chamadaC.arg] \in Galhos
    /\ parent[chamadaC.arg] # chamadaC.self
    /\ Contem(children[parent[chamadaC.arg]], chamadaC.arg)

\* The string the claim gives for a node, from the results of its children
FormatoDe(n) ==
    IF n \in Folhas THEN <<"Folha">>
    ELSE IF children[n] = <<>> THEN <<"Galho(", ")">>
    ELSE <<"Galho(">>
         \o Join([k \in 1 .. Len(children[n]) |-> Operation(children[n][k])], "+")
         \o <<")">>

\* C9: operation() returns "Galho(" + the children's results joined by "+" in
\* insertion order + ")", "Folha" for a Leaf, "Galho()" for an empty Branch.
C9_OperationFormato ==
    chamadaC.op = "operation" =>
        (chamadaC.erro = "" /\ resultado = FormatoDe(chamadaC.self))

\* C10: add(c) appends c as the last child, leaves the earlier children and
\* their order unchanged, and sets c.parent to the Branch.
C10_AddNoFim ==
    [][(chamadaC'.op = "add" /\ chamadaC'.self \in Galhos) =>
        LET b == chamadaC'.self
            c == chamadaC'.arg
        IN  /\ Len(children'[b]) = Len(children[b]) + 1
            /\ children'[b][Len(children'[b])] = c
            /\ \A k \in 1 .. Len(children[b]) : children'[b][k] = children[b][k]
            /\ parent'[c] = b]_vars

\* C10 witness: an add that put a second, different child behind the first
C10_Witness ==
    /\ chamadaC.op = "add"
    /\ chamadaC.self \in Galhos
    /\ Len(children[chamadaC.self]) = 2
    /\ children[chamadaC.self][2] = chamadaC.arg
    /\ children[chamadaC.self][1] # chamadaC.arg
    /\ parent[chamadaC.arg] = chamadaC.self

C18_ParentConcorda ==
    \A b \in Galhos : \A k \in 1 .. Len(children[b]) : parent[children[b][k]] = b

\* C19: operation() terminates on every structure that add / remove calls
\* can build: no call is ended by the interpreter's recursion limit.
C19_OperationTermina ==
    chamadaC.op \in {"operation", "client_code2"} => chamadaC.erro # "RecursionError"

\* C20: Leaf.add(c) and Leaf.remove(c) raise nothing and leave every children
\* list and every parent reference as they were, and client_code2 changes
\* the tree only when its first component is a composite.
C20_FolhaNaoMuda ==
    [][/\ (chamadaC'.op \in {"add", "remove"} /\ chamadaC'.self \in Folhas)
            => (chamadaC'.erro = "" /\ children' = children /\ parent' = parent)
       /\ (chamadaC'.op = "client_code2" /\ (children' # children \/ parent' # parent))
            => chamadaC'.self \in Galhos]_vars

\* C20 witness: add called on a Leaf with a component that a Branch holds
C20_Witness ==
    /\ chamadaC.op = "add"
    /\ chamadaC.self \in Folhas
    /\ parent[chamadaC.arg] \in Galhos
    /\ Contem(children[parent[chamadaC.arg]], chamadaC.arg)

\* ------------------------------------------------------------------------
\* Builder: properties
\* ------------------------------------------------------------------------
\* C16: reading product returns the product assembled since the last reset
\* and leaves the builder with a fresh empty one: a product already returned
\* keeps the parts it was returned with whatever is produced afterwards, and
\* the builder's current product holds exactly the parts produced since the
\* read, in call order.
C16_ProdutoDevolvido ==
    /\ \A k \in 1 .. Len(devolvidos) :
        /\ produtos[devolvidos[k].id] = devolvidos[k].partes
        /\ devolvidos[k].id # atual
    /\ produtos[atual] = pedidas

\* C16 witness: two products were returned with different parts and a third
\* is being assembled
C16_Witness ==
    /\ Len(devolvidos) = 2
    /\ devolvidos[1].partes = <<"ParteA1">>
    /\ devolvidos[2].partes = <<"ParteB1">>
    /\ produtos[atual] = <<"ParteC1">>

\* ------------------------------------------------------------------------
\* Command: properties
\* ------------------------------------------------------------------------
\* The positions of `saida` where the execute of some command starts
Execucoes(de, ate) == {k \in de .. ate : saida[k].oque = "execute"}

\* The last do_something_important() of invoker i, given what its slots hold:
\* one main action, before it one execute of the on_start command and none
\* other, after it one execute of the on_finish command and none other; a
\* slot that holds no command contributes nothing
PassoImportante(i) ==
    \E m \in 1 .. Len(saida) :
        /\ saida[m] = Evento(i, "print importante")
        /\ \A k \in 1 .. Len(saida) : saida[k] = saida[m] => k = m
        /\ IF onStart[i] \in {"simples", "complexo"}
           THEN \E k \in 1 .. (m - 1) : Execucoes(1, m - 1) = {k} /\ saida[k].quem = onStart[i]
           ELSE Execucoes(1, m - 1) = {}
        /\ IF onFinish[i] \in {"simples", "complexo"}
           THEN \E k \in (m + 1) .. Len(saida) : Execucoes(m + 1, Len(saida)) = {k} /\ saida[k].quem = onFinish[i]
           ELSE Execucoes(m + 1, Len(saida)) = {}

\* C17: in every do_something_important() the on_start command, if one is
\* set, executes exactly once before the main action and the on_finish
\* command, if one is set, exactly once after it; an unset slot is skipped;
\* the command executed is the one set last (each setter writes its own slot
\* of its own invoker and nothing else).
C17_ComandosEmOrdem ==
    [][\A i \in Invokers :
        /\ (chamadaI'.op = "set_on_start" /\ chamadaI'.self = i)
            => (onStart' = [onStart EXCEPT ![i] = chamadaI'.arg] /\ onFinish' = onFinish)
        /\ (chamadaI'.op = "set_on_finish" /\ chamadaI'.self = i)
            => (onFinish' = [onFinish EXCEPT ![i] = chamadaI'.arg] /\ onStart' = onStart)
        /\ (chamadaI'.op = "do_something_important" /\ chamadaI'.self = i)
            => (PassoImportante(i)' /\ onStart' = onStart /\ onFinish' = onFinish)]_vars

\* C17 witness: a call with a ComplexCommand on start and a SimpleCommand on
\* finish, on an invoker whose neighbour holds other commands
C17_Witness ==
    /\ chamadaI.op = "do_something_important"
    /\ onStart[chamadaI.self] = "complexo"
    /\ onFinish[chamadaI.self] = "simples"
    /\ Len(saida) = 7
    /\ \E j \in Invokers : j # chamadaI.self /\ onStart[j] = "simples" /\ onFinish[j] = SlotNone

\* ------------------------------------------------------------------------
\* Strategy: properties
\* ------------------------------------------------------------------------
\* C21: executar_logica_de_negocio() uses the strategy assigned last: each
\* assignment replaces the strategy of its Contexto and of no other, and the
\* call prints a,b,c,d,e when that strategy is an EstrategiaConcretaA and
\* e,d,c,b,a when it is an EstrategiaConcretaB, whatever was assigned before.
C21_EstrategiaAtual ==
    [][\A c \in Contextos :
        /\ (chamadaS'.op \in {"__init__", "estrategia"} /\ chamadaS'.self = c)
            => estrategia' = [estrategia EXCEPT ![c] = chamadaS'.arg]
        /\ (chamadaS'.op = "executar_logica_de_negocio" /\ chamadaS'.self = c)
            => /\ estrategia' = estrategia
               /\ Len(impresso') = Len(impresso) + 1
               /\ estrategia[c] = "ea" => impresso'[Len(impresso')] = <<"a", ",", "b", ",", "c", ",", "d", ",", "e">>
               /\ estrategia[c] = "eb" => impresso'[Len(impresso')] = <<"e", ",", "d", ",", "c", ",", "b", ",", "a">>]_vars

\* C21 witness: the same Contexto printed once in ascending order and, after
\* the strategy was replaced, once in descending order
C21_Witness ==
    /\ chamadaS.op = "executar_logica_de_negocio"
    /\ estrategia[chamadaS.self] = "eb"
    /\ \A c \in Contextos : c # chamadaS.self => estrategia[c] = SemContexto
    /\ Len(impresso) = 2
    /\ impresso[1][1] = "a"
    /\ impresso[2][1] = "e"

\* ------------------------------------------------------------------------
\* Decorator: properties
\* ------------------------------------------------------------------------
\* How many wrappers lie between the object o and its ComponenteConcreto
RECURSIVE Altura(_)
Altura(o) == IF objetos[o].componente = SemComponente THEN 0 ELSE 1 + Altura(objetos[o].componente)

\* The k-th object of the stack of o, the outermost (o itself) being the first
RECURSIVE Camada(_, _)
Camada(o, k) == IF k = 1 THEN o ELSE Camada(objetos[o].componente, k - 1)

\* The classes of the stack of o that write their name, outermost first
NomesDe(o) ==
    SelectSeq([k \in 1 .. Altura(o) |-> objetos[Camada(o, k)].classe],
              LAMBDA classe : classe # "Decorador")

\* C22: operacao() of a stack of wrappers returns the names of its
\* DecoradorConcretoA and DecoradorConcretoB wrappers, outermost first, each
\* opening a parenthesis, then "ComponenteConcreto", then one closing
\* parenthesis for each name; a base Decorador adds nothing to the result of
\* the object it wraps.
C22_NomesAninhados ==
    chamadaD.op = "operacao" =>
        LET o == chamadaD.self
            n == Len(NomesDe(o))
        IN  /\ Len(resultadoD) = 3 * n + 1
            /\ \A k \in 1 .. n :
                /\ resultadoD[2 * k - 1] = NomesDe(o)[k]
                /\ resultadoD[2 * k] = "("
                /\ resultadoD[2 * n + 1 + k] = ")"
            /\ resultadoD[2 * n + 1] = "ComponenteConcreto"
            /\ objetos[o].classe = "Decorador" => resultadoD = Operacao(objetos, objetos[o].componente)

\* C22 witness: operacao() of a base Decorador around a DecoradorConcretoB
\* around a DecoradorConcretoA around a ComponenteConcreto
C22_Witness ==
    /\ chamadaD.op = "operacao"
    /\ Altura(chamadaD.self) = 3
    /\ objetos[Camada(chamadaD.self, 1)].classe = "Decorador"
    /\ objetos[Camada(chamadaD.self, 2)].classe = "DecoradorConcretoB"
    /\ objetos[Camada(chamadaD.self, 3)].classe = "DecoradorConcretoA"
    /\ resultadoD = <<"DecoradorConcretoB", "(", "DecoradorConcretoA", "(", "ComponenteConcreto", ")", ")">>

SpecObserver == Init /\ [][NextObserver]_vars
SpecObserverEstados == Init /\ [][NextObserverEstados]_vars
SpecComposite == Init /\ [][NextComposite]_vars
SpecBuilder == Init /\ [][NextBuilder]_vars
SpecInvoker == Init /\ [][NextInvoker]_vars
SpecContexto == Init /\ [][NextContexto]_vars
SpecDecorador == Init /\ [][NextDecorador]_vars
====
